---- MODULE Spec2Model ----
(***************************************************************************)
(* Model of packages/cross-release-cli/src/cli.ts: one release run of the  *)
(* App class (start, version resolution, queueing of the version-update    *)
(* task, the commit/tag/push confirmation gates, the task loop and #done). *)
(* Strings are sequences of one-character strings.  The collaborators      *)
(* (project-file discovery, file writes, prompts, git) are the             *)
(* environment: their results are chosen nondeterministically.             *)
(***************************************************************************)
EXTENDS Integers, Sequences, FiniteSets, TLC

\* ---------------------------------------------------------------- bounds
MaxFiles == 2

Paths == 1..MaxFiles

\* ------------------------------------------------------------ JS values
Undefined == <<"<undefined>">>
CancelSymbol == <<"<cancel>">>
EmptyString == <<>>
NoFile == 0

Digits == {"0", "1", "2", "3", "4", "5", "6", "7", "8", "9"}

Range(s) == {s[i] : i \in 1..Len(s)}

\* JS truthiness of an option value: true and a symbol ("cancel") are
\* truthy, false and undefined are falsy.
Truthy(v) == v \in {"true", "cancel"}

\* ------------------------------------------------- environment (inputs)
\* category of the manifest at a path
Category(p) == IF p % 2 = 1 THEN "node" ELSE "java"

\* version field stored in the manifest at a path; Undefined when absent
FileVersion(p) == IF p = 1 THEN <<"1", ".", "0", ".", "0">> ELSE Undefined

Depths == {"none", "root", "nested"}
Mains == {"node", "java"}
OptVals == {"undefined", "false", "true"}
VersionInputs == {Undefined, <<"1", ".", "2">>, <<"2", ".", "1", ".", "0">>}
\* A prompt result is "symbol | T": cancel tells whether it is the cancel
\* symbol, value is the value the program sees.
ChooseVersionResults ==
    {[cancel |-> FALSE, value |-> <<"1", ".", "0", ".", "1">>],
     [cancel |-> TRUE, value |-> CancelSymbol]}
ConfirmResults ==
    {[cancel |-> FALSE, value |-> "true"],
     [cancel |-> FALSE, value |-> "false"],
     [cancel |-> TRUE, value |-> "cancel"]}
DefaultTemplate == <<"r", " ", "%", "s">>

VARIABLES
    pc,             \* position of run() / process state
    taskStatus,     \* App.taskStatus
    options,        \* App.options
    fs,             \* where each path's manifest lives: none, root, nested
    currentVersion, \* App.currentVersion
    nextVersion,    \* App.nextVersion
    message,        \* the commit/tag message of #confirmReleaseOptions
    taskQueue,      \* App.taskQueue (task names)
    modifiedFiles,  \* App.modifiedFiles
    projectFiles,   \* the list captured by the upgradeVersion task
    gate,           \* index of the confirmAndSet call being evaluated
    taskIdx,        \* position of the for-await iterator in taskQueue
    fileState,      \* per file: idle, writing, resolved, rejected, pushed, caught
    written,        \* manifests rewritten on disk by upgradeProjectVersion
    envDRY,         \* process.env.DRY
    exitCode,       \* process exit status
    thrown,         \* error thrown out of run()
    prompts,        \* prompts issued so far
    answers,        \* the operator's answers, answers[i] to prompts[i]
    invoked,        \* names of the tasks whose exec was called
    writeCalls,     \* paths handed to upgradeProjectVersion
    gitCalls,       \* git collaborator calls made
    gitResults      \* their results, gitResults[i] of gitCalls[i]

vars == <<pc, taskStatus, options, fs, currentVersion, nextVersion, message,
          taskQueue, modifiedFiles, projectFiles, gate, taskIdx, fileState,
          written, envDRY, exitCode, thrown, prompts, answers, invoked,
          writeCalls, gitCalls, gitResults>>

\* --------------------------------------------------------- collaborators
RECURSIVE SortedSeq(_)
SortedSeq(S) ==
    IF S = {} THEN <<>>
    ELSE LET m == CHOOSE x \in S : \A y \in S : x <= y
         IN <<m>> \o SortedSeq(S \ {m})

\* cross-bump findProjectFiles(dir, excludes, recursive): sorted by path
findProjectFiles(recursive) ==
    SortedSeq({p \in Paths : fs[p] = "root" \/ (recursive /\ fs[p] = "nested")})

\* cross-bump isVersionValid: a well-formed semantic version
isVersionValid(v) ==
    /\ v # Undefined
    /\ Len(v) = 5
    /\ v[1] \in Digits /\ v[3] \in Digits /\ v[5] \in Digits
    /\ v[2] = "." /\ v[4] = "."

\* variant of isCancel that recognises no result as the cancel symbol
isCancel_never(r) == FALSE

\* @clack/prompts isCancel
isCancel(r) == r.cancel

\* ------------------------------------------------------------------ Init
StepNames == {"commit", "tag", "push"}

OptionsSet ==
    [yes : BOOLEAN, dry : BOOLEAN, recursive : BOOLEAN,
     commit : OptVals, tag : OptVals, push : OptVals,
     version : VersionInputs, main : Mains, template : {DefaultTemplate}]

Init ==
    /\ options \in OptionsSet
    /\ fs \in [Paths -> Depths]
    /\ pc = "start"
    /\ taskStatus = "pending"
    /\ currentVersion = EmptyString
    /\ nextVersion = EmptyString
    /\ message = EmptyString
    /\ taskQueue = <<>>
    /\ modifiedFiles = <<>>
    /\ projectFiles = <<>>
    /\ gate = 1
    /\ taskIdx = 1
    /\ fileState = [p \in Paths |-> "idle"]
    /\ written = {}
    /\ envDRY = "unset"
    /\ exitCode = "none"
    /\ thrown = "none"
    /\ prompts = <<>>
    /\ answers = <<>>
    /\ invoked = <<>>
    /\ writeCalls = <<>>
    /\ gitCalls = <<>>
    /\ gitResults = <<>>

\* --------------------------------------------------------------- helpers
\* #addTask: taskQueue.push(task)
addTask(queue, name) == Append(queue, name)

\* variant of #check that never records the failure
check_ignore(ok, cur) == cur

\* #check: the status after #check(ok) when the status was cur
check(ok, cur) == IF ~ok THEN "failed" ELSE cur

\* variant of #checkDryRun that only logs
checkDryRun_logOnly(dry, env) == env

\* #checkDryRun: the value of process.env.DRY afterwards
checkDryRun(dry, env) == IF dry THEN "true" ELSE env

\* variant of handleUserCancel that returns the cancel symbol to the caller
handleUserCancelExits_never(r) == FALSE

\* handleUserCancel: whether the process exits on this prompt result
handleUserCancelExits(r) == isCancel(r)

\* Array.prototype.find(file => file.category === main): first match
find(files, main) ==
    IF \E i \in 1..Len(files) : Category(files[i]) = main
    THEN files[CHOOSE i \in 1..Len(files) :
                   /\ Category(files[i]) = main
                   /\ \A j \in 1..(i - 1) : Category(files[j]) # main]
    ELSE NoFile

\* variant of the main-file guard that never throws
noMainProjectFile_never(file) == FALSE

\* the two setup guards of #getNextVersion
noProjectFiles(files) == Len(files) = 0
noMainProjectFile(file) == file = NoFile

\* variant of the current-version read without the "?? ''" default
getProjectVersion_raw(file) == FileVersion(file)

\* cross-bump getProjectVersion, then "?? ''"
getProjectVersion(file) ==
    IF file = NoFile \/ FileVersion(file) = Undefined
    THEN EmptyString ELSE FileVersion(file)

\* String.prototype.replaceAll with a string replacement: the replacement
\* is expanded by GetSubstitution ($$ is $, $& the match, $` the text before
\* the match, $' the text after it; there are no captures)
RECURSIVE getSubstitution(_, _, _, _)
getSubstitution(matched, before, after, r) ==
    IF Len(r) = 0 THEN <<>>
    ELSE IF Len(r) >= 2 /\ r[1] = "$" /\ r[2] \in {"$", "&", "`", "'"}
         THEN (CASE r[2] = "$" -> <<"$">>
                 [] r[2] = "&" -> matched
                 [] r[2] = "`" -> before
                 [] r[2] = "'" -> after)
              \o getSubstitution(matched, before, after, SubSeq(r, 3, Len(r)))
         ELSE <<r[1]>> \o getSubstitution(matched, before, after, Tail(r))

RECURSIVE replaceFrom(_, _, _)
replaceFrom(str, i, v) ==
    IF i > Len(str) THEN <<>>
    ELSE IF i < Len(str) /\ str[i] = "%" /\ str[i + 1] = "s"
         THEN getSubstitution(<<"%", "s">>, SubSeq(str, 1, i - 1),
                              SubSeq(str, i + 2, Len(str)), v)
              \o replaceFrom(str, i + 2, v)
         ELSE <<str[i]>> \o replaceFrom(str, i + 1, v)

replaceAll(t, v) == replaceFrom(t, 1, v)

\* String.prototype.replace: only the first occurrence is replaced
replaceFirst(t, v) ==
    IF \E i \in 1..(Len(t) - 1) : t[i] = "%" /\ t[i + 1] = "s"
    THEN LET i == CHOOSE k \in 1..(Len(t) - 1) :
                      /\ t[k] = "%" /\ t[k + 1] = "s"
                      /\ \A j \in 1..(k - 1) : ~(t[j] = "%" /\ t[j + 1] = "s")
         IN  SubSeq(t, 1, i - 1)
             \o getSubstitution(<<"%", "s">>, SubSeq(t, 1, i - 1),
                                 SubSeq(t, i + 2, Len(t)), v)
             \o SubSeq(t, i + 2, Len(t))
    ELSE t

includes(t) == \E i \in 1..(Len(t) - 1) : t[i] = "%" /\ t[i + 1] = "s"

\* variant of formatMessageString that uses replace instead of replaceAll
formatMessageString_first(template, version) ==
    IF includes(template) THEN replaceFirst(template, version)
    ELSE template \o version

formatMessageString(template, version) ==
    IF includes(template) THEN replaceAll(template, version)
    ELSE template \o version

\* variant with the tag gate placed before the commit gate
GateOrder_tagFirst == <<"tag", "commit", "push">>

\* the order of the three confirmAndSet calls of #confirmReleaseOptions
GateOrder == <<"commit", "tag", "push">>

\* variant of confirmAndSet without the batch-yes branch
needsConfirm_noYes(yes, cur) == ~Truthy(cur)

\* confirmAndSet: whether the confirm prompt is issued
needsConfirm(yes, cur) == ~yes /\ ~Truthy(cur)

\* variant of confirmAndSet that queues the task whatever the answer
shouldAddTask_always(v) == TRUE

\* confirmAndSet: whether the task is added
shouldAddTask(v) == Truthy(v)

\* variant of the loop without the fail-fast guard
loopBreaks_never(status) == FALSE

\* the guard of the task loop
loopBreaks(status) == status = "failed"

\* variant of the catch block that only logs
catchStatus_keep(cur) == cur

\* the catch block of the per-file update
catchStatus(cur) == "failed"

\* variant that records the path whether or not the write succeeded
afterWrite_always(ok, files, path) == Append(files, path)

\* the continuation of the per-file update: modifiedFiles afterwards
afterWrite(ok, files, path) == IF ok THEN Append(files, path) ELSE files

\* variant of #done that leaves the status alone
doneStatus_keep(cur) == cur

\* variant of the join that settles with the first finished update
promiseAll_race(files, state) ==
    \E p \in Range(files) : state[p] \in {"pushed", "caught"}

\* Promise.all over the per-file updates: all of them have finished
promiseAll(files, state) ==
    \A p \in Range(files) : state[p] \in {"pushed", "caught"}

\* the for-await iterator: the task at position i
taskAt_reversed(queue, i) == queue[Len(queue) + 1 - i]

taskAt(queue, i) == queue[i]

\* #done
doneStatus(cur) == "finished"

\* ---------------------------------------------------------------- actions
\* #start
Start ==
    /\ pc = "start"
    /\ envDRY' = checkDryRun(options.dry, envDRY)
    /\ taskStatus' = "running"
    /\ pc' = "getNextVersion"
    /\ UNCHANGED <<options, fs, currentVersion, nextVersion, taskQueue,
                   modifiedFiles, projectFiles, gate, taskIdx, fileState,
                   written, exitCode, thrown, prompts, answers, invoked,
                   writeCalls, gitCalls, gitResults>>
    /\ UNCHANGED message

\* #getNextVersion up to its first suspension on the version prompt
GetNextVersion ==
    /\ pc = "getNextVersion"
    /\ LET files == findProjectFiles(FALSE)
           mainProjectFile == find(files, options.main)
           projectVersion == getProjectVersion(mainProjectFile)
       IN  IF noProjectFiles(files)
           THEN /\ thrown' = "can't found any project file"
                /\ exitCode' = "FatalError"
                /\ pc' = "error"
                /\ UNCHANGED <<currentVersion, nextVersion, prompts>>
           ELSE IF noMainProjectFile(mainProjectFile)
           THEN /\ thrown' = "can't found main project file"
                /\ exitCode' = "FatalError"
                /\ pc' = "error"
                /\ UNCHANGED <<currentVersion, nextVersion, prompts>>
           ELSE /\ currentVersion' = projectVersion
                /\ IF isVersionValid(options.version)
                   THEN /\ nextVersion' = options.version
                        /\ pc' = "getProjects"
                        /\ UNCHANGED prompts
                   ELSE /\ prompts' = Append(prompts,
                               [kind |-> "chooseVersion", name |-> "version",
                                seed |-> projectVersion])
                        /\ pc' = "chooseVersion"
                        /\ UNCHANGED nextVersion
                /\ UNCHANGED <<thrown, exitCode>>
    /\ UNCHANGED <<taskStatus, options, fs, taskQueue, modifiedFiles,
                   projectFiles, gate, taskIdx, fileState, written, envDRY,
                   answers, invoked, writeCalls, gitCalls, gitResults>>
    /\ UNCHANGED message

\* the operator answers the version prompt; handleUserCancel
ChooseVersionAnswer ==
    /\ pc = "chooseVersion"
    /\ \E r \in ChooseVersionResults :
        /\ answers' = Append(answers, r)
        /\ IF handleUserCancelExits(r)
           THEN /\ exitCode' = "Canceled"
                /\ pc' = "canceled"
                /\ UNCHANGED nextVersion
           ELSE /\ nextVersion' = r.value
                /\ pc' = "getProjects"
                /\ UNCHANGED exitCode
    /\ UNCHANGED <<taskStatus, options, fs, currentVersion, taskQueue,
                   modifiedFiles, projectFiles, gate, taskIdx, fileState,
                   written, envDRY, thrown, prompts, invoked, writeCalls,
                   gitCalls, gitResults>>
    /\ UNCHANGED message

\* #getProjects
GetProjects ==
    /\ pc = "getProjects"
    /\ projectFiles' = findProjectFiles(options.recursive)
    /\ taskQueue' = addTask(taskQueue, "upgradeVersion")
    /\ pc' = "confirm"
    /\ UNCHANGED <<taskStatus, options, fs, currentVersion, nextVersion,
                   modifiedFiles, gate, taskIdx, fileState, written, envDRY,
                   exitCode, thrown, prompts, answers, invoked, writeCalls,
                   gitCalls, gitResults>>
    /\ UNCHANGED message

\* what follows a completed confirmAndSet call
afterGate == IF gate = Len(GateOrder) THEN "loop" ELSE "confirm"

\* confirmAndSet up to its suspension on the confirm prompt (if any)
ConfirmAndSet ==
    /\ pc = "confirm"
    /\ LET name == GateOrder[gate]
       IN  IF needsConfirm(options.yes, options[name])
           THEN /\ prompts' = Append(prompts,
                       [kind |-> "confirm", name |-> name, seed |-> EmptyString])
                /\ pc' = "confirmPrompt"
                /\ UNCHANGED <<options, taskQueue, gate>>
           ELSE LET v == IF options.yes THEN "true" ELSE options[name]
                IN  /\ options' = [options EXCEPT ![name] = v]
                    /\ taskQueue' = IF shouldAddTask(v)
                                    THEN addTask(taskQueue, name)
                                    ELSE taskQueue
                    /\ gate' = gate + 1
                    /\ pc' = afterGate
                    /\ UNCHANGED prompts
    /\ UNCHANGED <<taskStatus, fs, currentVersion, nextVersion,
                   modifiedFiles, projectFiles, taskIdx, fileState, written,
                   envDRY, exitCode, thrown, answers, invoked, writeCalls,
                   gitCalls, gitResults>>
    /\ message' = IF gate = 1
                  THEN formatMessageString(options.template, nextVersion)
                  ELSE message

\* the operator answers the confirm prompt; handleUserCancel; rest of
\* confirmAndSet
ConfirmAnswer ==
    /\ pc = "confirmPrompt"
    /\ \E r \in ConfirmResults :
        LET name == GateOrder[gate]
        IN  /\ answers' = Append(answers, r)
            /\ IF handleUserCancelExits(r)
               THEN /\ exitCode' = "Canceled"
                    /\ pc' = "canceled"
                    /\ UNCHANGED <<options, taskQueue, gate>>
               ELSE /\ options' = [options EXCEPT ![name] = r.value]
                    /\ taskQueue' = IF shouldAddTask(r.value)
                                    THEN addTask(taskQueue, name)
                                    ELSE taskQueue
                    /\ gate' = gate + 1
                    /\ pc' = afterGate
                    /\ UNCHANGED exitCode
    /\ UNCHANGED <<taskStatus, fs, currentVersion, nextVersion,
                   modifiedFiles, projectFiles, taskIdx, fileState, written,
                   envDRY, thrown, prompts, invoked, writeCalls, gitCalls,
                   gitResults>>
    /\ UNCHANGED message

\* the task loop of run(): the queue is exhausted or the status is failed
LoopExit ==
    /\ pc = "loop"
    /\ taskIdx > Len(taskQueue) \/ loopBreaks(taskStatus)
    /\ pc' = "done"
    /\ UNCHANGED <<taskStatus, options, fs, currentVersion, nextVersion,
                   taskQueue, modifiedFiles, projectFiles, gate, taskIdx,
                   fileState, written, envDRY, exitCode, thrown, prompts,
                   answers, invoked, writeCalls, gitCalls, gitResults>>
    /\ UNCHANGED message

\* the loop calls the upgradeVersion task: every per-file update runs up
\* to its await of upgradeProjectVersion
ExecUpgradeVersion ==
    /\ pc = "loop"
    /\ taskIdx <= Len(taskQueue)
    /\ ~loopBreaks(taskStatus)
    /\ taskAt(taskQueue, taskIdx) = "upgradeVersion"
    /\ invoked' = Append(invoked, "upgradeVersion")
    /\ writeCalls' = writeCalls \o projectFiles
    /\ fileState' = [p \in Paths |->
                        IF p \in Range(projectFiles) THEN "writing"
                        ELSE fileState[p]]
    /\ pc' = "fanout"
    /\ UNCHANGED <<taskStatus, options, fs, currentVersion, nextVersion,
                   taskQueue, modifiedFiles, projectFiles, gate, taskIdx,
                   written, envDRY, exitCode, thrown, prompts, answers,
                   gitCalls, gitResults>>
    /\ UNCHANGED message

\* upgradeProjectVersion settles for one file, with success or failure
WriteSettle(p) ==
    /\ pc = "fanout"
    /\ fileState[p] = "writing"
    /\ \E ok \in BOOLEAN :
        /\ fileState' = [fileState EXCEPT
                            ![p] = IF ok THEN "resolved" ELSE "rejected"]
        /\ written' = IF ok THEN written \cup {p} ELSE written
    /\ UNCHANGED <<pc, taskStatus, options, fs, currentVersion,
                   nextVersion, taskQueue, modifiedFiles, projectFiles, gate,
                   taskIdx, envDRY, exitCode, thrown, prompts, answers,
                   invoked, writeCalls, gitCalls, gitResults>>
    /\ UNCHANGED message

\* the per-file update resumes after its await: push or catch
WriteContinue(p) ==
    /\ pc = "fanout"
    /\ fileState[p] \in {"resolved", "rejected"}
    /\ LET ok == fileState[p] = "resolved"
       IN  /\ modifiedFiles' = afterWrite(ok, modifiedFiles, p)
           /\ taskStatus' = IF ok THEN taskStatus ELSE catchStatus(taskStatus)
           /\ fileState' = [fileState EXCEPT
                               ![p] = IF ok THEN "pushed" ELSE "caught"]
    /\ UNCHANGED <<pc, options, fs, currentVersion, nextVersion,
                   taskQueue, projectFiles, gate, taskIdx, written, envDRY,
                   exitCode, thrown, prompts, answers, invoked, writeCalls,
                   gitCalls, gitResults>>
    /\ UNCHANGED message

\* Promise.all resolves: every per-file update has finished
UpgradeVersionJoin ==
    /\ pc = "fanout"
    /\ promiseAll(projectFiles, fileState)
    /\ taskIdx' = taskIdx + 1
    /\ pc' = "loop"
    /\ UNCHANGED <<taskStatus, options, fs, currentVersion, nextVersion,
                   taskQueue, modifiedFiles, projectFiles, gate, fileState,
                   written, envDRY, exitCode, thrown, prompts, answers,
                   invoked, writeCalls, gitCalls, gitResults>>
    /\ UNCHANGED message

\* the git collaborator call made by a step's task
gitCall(name) ==
    LET tagName == <<"v">> \o nextVersion
    IN  [fn |-> name,
         dry |-> options.dry,
         message |-> IF name = "push" THEN EmptyString ELSE message,
         tagName |-> IF name = "tag" THEN tagName ELSE EmptyString,
         modifiedFiles |-> IF name = "commit" THEN modifiedFiles ELSE <<>>]

\* the loop calls a commit, tag or push task: the git call is made
ExecGitTask ==
    /\ pc = "loop"
    /\ taskIdx <= Len(taskQueue)
    /\ ~loopBreaks(taskStatus)
    /\ taskAt(taskQueue, taskIdx) \in StepNames
    /\ invoked' = Append(invoked, taskAt(taskQueue, taskIdx))
    /\ gitCalls' = Append(gitCalls, gitCall(taskAt(taskQueue, taskIdx)))
    /\ pc' = "awaitGit"
    /\ UNCHANGED <<taskStatus, options, fs, currentVersion, nextVersion,
                   taskQueue, modifiedFiles, projectFiles, gate, taskIdx,
                   fileState, written, envDRY, exitCode, thrown, prompts,
                   answers, writeCalls, gitResults>>
    /\ UNCHANGED message

\* the git call returns its success flag; #check
GitReturn ==
    /\ pc = "awaitGit"
    /\ \E ok \in BOOLEAN :
        /\ gitResults' = Append(gitResults, ok)
        /\ taskStatus' = check(ok, taskStatus)
    /\ taskIdx' = taskIdx + 1
    /\ pc' = "loop"
    /\ UNCHANGED <<options, fs, currentVersion, nextVersion, taskQueue,
                   modifiedFiles, projectFiles, gate, fileState, written,
                   envDRY, exitCode, thrown, prompts, answers, invoked,
                   writeCalls, gitCalls>>
    /\ UNCHANGED message

\* #done, then run() returns and the process ends
Done ==
    /\ pc = "done"
    /\ taskStatus' = doneStatus(taskStatus)
    /\ exitCode' = "Success"
    /\ pc' = "finished"
    /\ UNCHANGED <<options, fs, currentVersion, nextVersion, taskQueue,
                   modifiedFiles, projectFiles, gate, taskIdx, fileState,
                   written, envDRY, thrown, prompts, answers, invoked,
                   writeCalls, gitCalls, gitResults>>
    /\ UNCHANGED message

Next ==
    \/ Start
    \/ GetNextVersion
    \/ ChooseVersionAnswer
    \/ GetProjects
    \/ ConfirmAndSet
    \/ ConfirmAnswer
    \/ LoopExit
    \/ ExecUpgradeVersion
    \/ \E p \in Paths : WriteSettle(p)
    \/ \E p \in Paths : WriteContinue(p)
    \/ UpgradeVersionJoin
    \/ ExecGitTask
    \/ GitReturn
    \/ Done

Spec == Init /\ [][Next]_vars

\* ------------------------------- runs with --yes and a valid --version
\* No prompt is ever pending in these runs, so the two answer actions are
\* left out.  Every continuation that is ready is eventually run by the
\* event loop and every collaborator call settles: weak fairness.
InitHappy ==
    /\ Init
    /\ options.yes
    /\ isVersionValid(options.version)

NextHappy ==
    \/ Start
    \/ GetNextVersion
    \/ GetProjects
    \/ ConfirmAndSet
    \/ LoopExit
    \/ ExecUpgradeVersion
    \/ \E p \in Paths : WriteSettle(p)
    \/ \E p \in Paths : WriteContinue(p)
    \/ UpgradeVersionJoin
    \/ ExecGitTask
    \/ GitReturn
    \/ Done

SpecHappy == InitHappy /\ [][NextHappy]_vars /\ WF_vars(NextHappy)

\* -------------------------------------------- formatMessageString alone
TemplateMaxLen == 4
VersionMaxLen == 2
TemplateChars == {"%", "s", "a"}
VersionChars == {"%", "s", "$", "1", "."}

Strings(chars, n) == UNION {[1..k -> chars] : k \in 0..n}

InitFormat ==
    /\ options \in [yes : {FALSE}, dry : {FALSE}, recursive : {FALSE},
                    commit : {"true"}, tag : {"true"}, push : {"true"},
                    version : {Undefined}, main : {"node"},
                    template : Strings(TemplateChars, TemplateMaxLen)]
    /\ nextVersion \in Strings(VersionChars, VersionMaxLen)
    /\ fs = [p \in Paths |-> "root"]
    /\ pc = "format"
    /\ taskStatus = "running"
    /\ currentVersion = EmptyString
    /\ message = EmptyString
    /\ taskQueue = <<>>
    /\ modifiedFiles = <<>>
    /\ projectFiles = <<>>
    /\ gate = 1
    /\ taskIdx = 1
    /\ fileState = [p \in Paths |-> "idle"]
    /\ written = {}
    /\ envDRY = "unset"
    /\ exitCode = "none"
    /\ thrown = "none"
    /\ prompts = <<>>
    /\ answers = <<>>
    /\ invoked = <<>>
    /\ writeCalls = <<>>
    /\ gitCalls = <<>>
    /\ gitResults = <<>>

\* the call of formatMessageString made by #confirmReleaseOptions
FormatMessage ==
    /\ pc = "format"
    /\ message' = formatMessageString(options.template, nextVersion)
    /\ pc' = "formatted"
    /\ UNCHANGED <<taskStatus, options, fs, currentVersion, nextVersion,
                   taskQueue, modifiedFiles, projectFiles, gate, taskIdx,
                   fileState, written, envDRY, exitCode, thrown, prompts,
                   answers, invoked, writeCalls, gitCalls, gitResults>>

NextFormat == FormatMessage

SpecFormat == InitFormat /\ [][NextFormat]_vars

PostGate == {"loop", "fanout", "awaitGit", "done", "finished"}

Count(seq, x) == Cardinality({i \in 1..Len(seq) : seq[i] = x})

Rank(name) ==
    CASE name = "upgradeVersion" -> 0
      [] name = "commit" -> 1
      [] name = "tag" -> 2
      [] name = "push" -> 3

\* some per-file write of the version-update task has failed
SomeWriteFailed == \E p \in Paths : fileState[p] \in {"rejected", "caught"}

TypeOK ==
    /\ pc \in {"start", "getNextVersion", "chooseVersion", "getProjects",
               "confirm", "confirmPrompt", "loop", "fanout", "awaitGit",
               "done", "finished", "canceled", "error"}
    /\ taskStatus \in {"pending", "running", "failed", "finished"}
    /\ gate \in 1..(Len(GateOrder) + 1)
    /\ written \subseteq Paths

\* ------------------------------------------------------------------ C1
\* C1: once the write of some project file has failed, no commit, tag or
\* push task has been or is ever invoked and no git call is made.
C1_FileFailureFailFast ==
    SomeWriteFailed =>
        /\ gitCalls = <<>>
        /\ Range(invoked) \cap StepNames = {}

\* a finished batch-yes run with all three steps queued in which one file
\* failed and its sibling succeeded
C1_Witness ==
    /\ pc = "finished"
    /\ options.yes
    /\ taskQueue = <<"upgradeVersion", "commit", "tag", "push">>
    /\ \E p \in Paths : fileState[p] = "caught"
    /\ \E p \in Paths : fileState[p] = "pushed"

\* ------------------------------------------------------------------ C2
\* C2: when the git call of a queued step returns failure, the status is
\* failed from then until the loop is left and no later task is invoked:
\* the failed call stays the last git call and the last invoked task.
C2_StepFailureFailFast ==
    \A i \in 1..Len(gitResults) :
        ~gitResults[i] =>
            /\ Len(gitCalls) = i
            /\ Len(invoked) = i + 1
            /\ pc \in {"loop", "done", "finished"}
            /\ pc \in {"loop", "done"} => taskStatus = "failed"

\* the commit failed while tag and push were queued behind it
C2_Witness ==
    /\ pc = "done"
    /\ taskQueue = <<"upgradeVersion", "commit", "tag", "push">>
    /\ gitResults = <<FALSE>>
    /\ invoked = <<"upgradeVersion", "commit">>

\* ------------------------------------------------------------------ C3
\* C3: when the version-update task has completed, modifiedFiles holds
\* exactly the paths whose write succeeded, each once, and no path whose
\* write failed, whatever the order in which the updates resumed.
C3_PartialSuccess ==
    taskIdx >= 2 =>
        /\ Range(modifiedFiles) = written
        /\ Len(modifiedFiles) = Cardinality(written)
        /\ \A p \in Paths : fileState[p] = "caught" => p \notin Range(modifiedFiles)
        /\ \A p \in Range(projectFiles) :
               (p \in written) # (fileState[p] = "caught")

\* the first file failed and the second succeeded
C3_Witness ==
    /\ taskIdx >= 2
    /\ projectFiles = <<1, 2>>
    /\ fileState[1] = "caught"
    /\ modifiedFiles = <<2>>

\* ------------------------------------------------------------------ C4
\* C4: the status changes only pending -> running, running -> failed and
\* running -> finished, and a run in which a file update or a step failed
\* ends with status failed.
C4_StatusTerminal ==
    /\ [][\/ taskStatus' = taskStatus
          \/ <<taskStatus, taskStatus'>> \in
                {<<"pending", "running">>, <<"running", "failed">>,
                 <<"running", "finished">>}]_vars
    /\ [](pc = "finished" /\ (SomeWriteFailed \/ FALSE \in Range(gitResults))
              => taskStatus = "failed")

\* ------------------------------------------------------------------ C5
\* C5: the tasks are invoked in the order version-update, commit, tag,
\* push: the first invoked task is the version update and the invoked
\* steps appear in strictly increasing order.
C5_ExecutionOrder ==
    /\ invoked # <<>> => invoked[1] = "upgradeVersion"
    /\ \A i, j \in 1..Len(invoked) :
           i < j => Rank(invoked[i]) < Rank(invoked[j])

\* all four tasks ran; commit was authorized by flag, tag by the operator
C5_Witness ==
    /\ Len(invoked) = 4
    /\ ~options.yes
    /\ \E i \in 1..Len(prompts) : prompts[i].name = "tag"
    /\ \A i \in 1..Len(prompts) : prompts[i].name # "commit"

\* ------------------------------------------------------------------ C6
\* C6: from the start of the execution of the queue on, its first element
\* is the version-update task, present once, and each step is queued
\* (once) exactly if its option resolved to true; a step resolved to false
\* is never invoked, and the status is failed only after a failed write or
\* a failed git call.
C6_QueueComposition ==
    pc \in PostGate =>
        /\ taskQueue[1] = "upgradeVersion"
        /\ Count(taskQueue, "upgradeVersion") = 1
        /\ \A n \in StepNames :
            /\ Count(taskQueue, n) = (IF options[n] = "true" THEN 1 ELSE 0)
            /\ options[n] # "true" => n \notin Range(invoked)
        /\ taskStatus = "failed" =>
               SomeWriteFailed \/ FALSE \in Range(gitResults)

\* tag was declined, commit and push ran and succeeded
C6_Witness ==
    /\ pc = "done"
    /\ options.tag = "false"
    /\ taskQueue = <<"upgradeVersion", "commit", "push">>
    /\ invoked = taskQueue
    /\ gitResults = <<TRUE, TRUE>>
    /\ taskStatus = "running"

\* ------------------------------------------------------------------ C7
\* C7: with batch-yes off, a gate whose option was set by flag to true or
\* to false issues no confirm prompt and queues the step exactly if the
\* flag is true.
C7_PresetHonoured ==
    [][(/\ pc = "confirm"
        /\ ~options.yes
        /\ options[GateOrder[gate]] \in {"true", "false"})
       => /\ pc' # "confirmPrompt"
          /\ prompts' = prompts
          /\ (GateOrder[gate] \in Range(taskQueue'))
                 <=> (options[GateOrder[gate]] = "true")]_vars

\* ------------------------------------------------------------------ C8
\* C8: with batch-yes set no confirm prompt is ever issued, every gate
\* already evaluated has left its option true, and after the gates the
\* queue holds the version update and all three steps.
C8_BatchYes ==
    options.yes =>
        /\ \A i \in 1..Len(prompts) : prompts[i].kind # "confirm"
        /\ pc # "confirmPrompt"
        /\ \A k \in 1..(gate - 1) : options[GateOrder[k]] = "true"
        /\ pc \in PostGate =>
               taskQueue = <<"upgradeVersion", "commit", "tag", "push">>

\* batch-yes has forced the commit option and queued the step, while the
\* tag option still holds the explicit false it was given
C8_Witness ==
    /\ options.yes
    /\ pc = "confirm"
    /\ gate = 2
    /\ options.commit = "true"
    /\ options.tag = "false"
    /\ taskQueue = <<"upgradeVersion", "commit">>

\* ------------------------------------------------------------------ C9
\* C9: once the operator has cancelled the confirm prompt of a step, the
\* process has exited with the canceled status and takes no further step:
\* that prompt is the last one, the gate index still names that step, the
\* step's option is not set, neither it nor a later step is queued and no
\* task is invoked.
C9_CancelAtGate ==
    /\ [](\A i \in 1..Len(answers) :
            (answers[i].cancel /\ prompts[i].kind = "confirm") =>
                /\ pc = "canceled"
                /\ exitCode = "Canceled"
                /\ i = Len(prompts)
                /\ gate <= Len(GateOrder)
                /\ GateOrder[gate] = prompts[i].name
                /\ ~Truthy(options[GateOrder[gate]])
                /\ \A k \in gate..Len(GateOrder) :
                       GateOrder[k] \notin Range(taskQueue)
                /\ invoked = <<>>)
    /\ [][pc # "canceled"]_vars

\* commit was confirmed and queued, then the tag prompt was cancelled
C9_Witness ==
    /\ pc = "canceled"
    /\ gate = 2
    /\ prompts[Len(prompts)].name = "tag"
    /\ answers[Len(answers)].cancel
    /\ taskQueue = <<"upgradeVersion", "commit">>

\* ----------------------------------------------------------------- C10
\* C10: when the project root holds no project file of the main category
\* (in particular no project file at all), the run stops in
\* #getNextVersion with an error: nothing is queued or invoked, no prompt
\* is issued, no file is written and no git call is made.
C10_SetupFailure ==
    (~\E p \in Paths : fs[p] = "root" /\ Category(p) = options.main) =>
        /\ pc \in {"start", "getNextVersion", "error"}
        /\ pc = "error" => thrown # "none" /\ exitCode = "FatalError"
        /\ taskQueue = <<>>
        /\ invoked = <<>>
        /\ prompts = <<>>
        /\ written = {}
        /\ writeCalls = <<>>
        /\ gitCalls = <<>>

\* a project file exists in the root but none of the main category
C10_Witness ==
    /\ pc = "error"
    /\ thrown = "can't found main project file"
    /\ \E p \in Paths : fs[p] = "root"

\* ----------------------------------------------------------------- C11
\* the version prompts issued so far
VersionPrompts == {i \in 1..Len(prompts) : prompts[i].kind = "chooseVersion"}

\* #getNextVersion has returned
VersionResolved ==
    \/ pc \in {"getProjects", "confirm", "confirmPrompt"} \cup PostGate
    \/ pc = "canceled" /\ prompts[Len(prompts)].kind = "confirm"

\* the version field of the first main-category manifest of the project
\* root, empty when it has none
MainFileVersion ==
    LET S == {p \in Paths : fs[p] = "root" /\ Category(p) = options.main}
        m == CHOOSE p \in S : \A q \in S : p <= q
    IN  IF FileVersion(m) = Undefined THEN EmptyString ELSE FileVersion(m)

\* C11: a valid explicit version becomes nextVersion and no version prompt
\* is issued; an absent or invalid one leads to exactly one version prompt,
\* seeded with the main file's version (empty when it has none), and
\* nextVersion is the operator's choice, never the string given.
C11_VersionResolution ==
    IF isVersionValid(options.version)
    THEN /\ VersionPrompts = {}
         /\ VersionResolved => nextVersion = options.version
    ELSE /\ Cardinality(VersionPrompts) <= 1
         /\ nextVersion # options.version
         /\ pc \notin {"start", "getNextVersion", "error"} =>
                /\ VersionPrompts = {1}
                /\ prompts[1].seed = MainFileVersion
         /\ VersionResolved =>
                /\ ~answers[1].cancel
                /\ nextVersion = answers[1].value

\* an invalid version was given, the main file has no version, the
\* operator chose 1.0.1 and the run went on to the end
C11_Witness ==
    /\ pc = "finished"
    /\ options.version = <<"1", ".", "2">>
    /\ prompts[1].kind = "chooseVersion"
    /\ prompts[1].seed = EmptyString
    /\ nextVersion = <<"1", ".", "0", ".", "1">>

\* ----------------------------------------------------------------- C12
\* the template with every "%s" replaced by the characters of v
RECURSIVE LiteralReplace(_, _)
LiteralReplace(t, v) ==
    IF Len(t) = 0 THEN <<>>
    ELSE IF Len(t) >= 2 /\ t[1] = "%" /\ t[2] = "s"
         THEN v \o LiteralReplace(SubSeq(t, 3, Len(t)), v)
         ELSE <<t[1]>> \o LiteralReplace(Tail(t), v)

HasPlaceholder(t) == \E i \in 1..(Len(t) - 1) : t[i] = "%" /\ t[i + 1] = "s"

\* a non-empty version holding none of the characters %, s and $
PlainVersion(v) == Len(v) > 0 /\ \A i \in 1..Len(v) : v[i] \notin {"%", "s", "$"}

SetupSucceeds ==
    \E p \in Paths : fs[p] = "root" /\ Category(p) = options.main

\* every write has succeeded and no git call has reported failure
AllSucceeded ==
    /\ projectFiles # <<>>
    /\ written = Range(projectFiles)
    /\ FALSE \notin Range(gitResults)

\* C13: with batch-yes and a valid explicit version V no prompt is ever
\* issued and the run whose setup succeeds eventually ends; when it has
\* ended with every write and every git call successful, exactly the four
\* tasks version-update, commit, tag, push were invoked in that order, the
\* tag name is "v" followed by V, the status is finished and modifiedFiles
\* has one entry per discovered file.
C13_HappyPath ==
    /\ [](prompts = <<>>)
    /\ [](pc = "finished" /\ AllSucceeded =>
            /\ invoked = <<"upgradeVersion", "commit", "tag", "push">>
            /\ Len(gitCalls) = 3
            /\ \A i \in 1..3 : gitCalls[i].fn = GateOrder[i]
            /\ gitCalls[2].tagName = <<"v">> \o options.version
            /\ gitResults = <<TRUE, TRUE, TRUE>>
            /\ taskStatus = "finished"
            /\ Len(modifiedFiles) = Len(projectFiles)
            /\ Len(modifiedFiles) >= 1)
    /\ (SetupSucceeds ~> pc = "finished")

\* the run of the example: version 2.1.0, two files, everything succeeds
C13_Witness ==
    /\ pc = "finished"
    /\ AllSucceeded
    /\ Len(modifiedFiles) = 2
    /\ gitCalls[2].tagName = <<"v", "2", ".", "1", ".", "0">>
    /\ taskStatus = "finished"

\* ----------------------------------------------------------------- C14
\* C14: with the dry option set, process.env.DRY is "true" from #start on,
\* no collaborator has been called before it is set, every git call made
\* carries dry = true, and the version-update task, once invoked, has
\* handed every discovered file to upgradeProjectVersion.
C14_DryRunPropagation ==
    options.dry =>
        /\ pc # "start" => envDRY = "true"
        /\ pc = "start" =>
               /\ prompts = <<>>
               /\ writeCalls = <<>>
               /\ gitCalls = <<>>
        /\ \A i \in 1..Len(gitCalls) : gitCalls[i].dry = TRUE
        /\ pc \in {"fanout", "awaitGit", "done", "finished"} =>
               /\ invoked[1] = "upgradeVersion"
               /\ writeCalls = projectFiles

\* a dry run in which both files were written and all three git calls made
C14_Witness ==
    /\ options.dry
    /\ pc = "finished"
    /\ envDRY = "true"
    /\ Len(gitCalls) = 3
    /\ written = {1, 2}

\* ----------------------------------------------------------------- C15
\* C15: once the loop has started, the version-update task has been
\* invoked and every discovered file has been handed to
\* upgradeProjectVersion exactly once, whether or not a sibling failed;
\* the task is complete only when every file's update has ended in its
\* push or in its catch.
C15_FanOutComplete ==
    /\ pc \in {"fanout", "awaitGit", "done", "finished"} =>
        /\ invoked[1] = "upgradeVersion"
        /\ Range(writeCalls) = Range(projectFiles)
        /\ \A p \in Range(projectFiles) :
            /\ Count(writeCalls, p) = 1
            /\ fileState[p] # "idle"
    /\ taskIdx >= 2 =>
        \A p \in Range(projectFiles) : fileState[p] \in {"pushed", "caught"}

\* the task is complete: the first file's write failed, the second file
\* was still written
C15_Witness ==
    /\ pc = "loop"
    /\ taskIdx = 2
    /\ writeCalls = <<1, 2>>
    /\ fileState[1] = "caught"
    /\ fileState[2] = "pushed"

\* ----------------------------------------------------------------- C16
\* every task invoked so far has run to completion
InvokedTasksComplete ==
    /\ Len(gitResults) = Len(gitCalls)
    /\ invoked # <<>> =>
           \A p \in Range(projectFiles) : fileState[p] \in {"pushed", "caught"}

\* C16: the tasks invoked are a prefix of the queue, in insertion order
\* and each at most once; between two iterations of the loop every invoked
\* task has completed, and a task is invoked only when every task invoked
\* before it has completed, so at most one task is in progress.
C16_SequentialExecution ==
    /\ [](/\ Len(invoked) <= Len(taskQueue)
          /\ invoked = SubSeq(taskQueue, 1, Len(invoked))
          /\ \A n \in Range(invoked) : Count(invoked, n) = 1
          /\ pc = "loop" => Len(invoked) = taskIdx - 1 /\ InvokedTasksComplete
          /\ pc \in {"fanout", "awaitGit"} => Len(invoked) = taskIdx)
    /\ [][invoked' # invoked =>
            /\ InvokedTasksComplete
            /\ Len(invoked') = Len(invoked) + 1]_vars

\* the tag task is in progress after the version update (two files, in
\* the order 2, 1) and the commit have completed
C16_Witness ==
    /\ pc = "awaitGit"
    /\ invoked = <<"upgradeVersion", "commit", "tag">>
    /\ gitResults = <<TRUE>>
    /\ modifiedFiles = <<2, 1>>

\* ----------------------------------------------------------------- C17
\* the files a discovery that honours the recursive option finds
HonouringDiscovery ==
    {p \in Paths : fs[p] = "root" \/ (options.recursive /\ fs[p] = "nested")}

\* C17: the resolver's discovery honours the recursive option: once
\* #getNextVersion is past its guards, it has thrown exactly if the
\* discovery (recursive if requested) finds no main-category file.
C17_ResolverHonoursRecursive ==
    pc \notin {"start", "getNextVersion"} =>
        ((pc = "error") <=>
            ~\E p \in HonouringDiscovery : Category(p) = options.main)

\* ----------------------------------------------------------------- C18
\* a prompt has been issued and not yet answered
PromptPending == pc \in {"chooseVersion", "confirmPrompt"}

\* C18: a prompt is pending only before the first task is invoked and all
\* prompts issued are answered by then; once the operator has cancelled a
\* prompt the process is in its canceled state with no file written,
\* modifiedFiles empty, no write or git call made, no task invoked and the
\* status still running.
C18_PromptsBeforeTasks ==
    /\ Len(prompts) = Len(answers) + (IF PromptPending THEN 1 ELSE 0)
    /\ PromptPending => invoked = <<>>
    /\ invoked # <<>> => \A i \in 1..Len(answers) : ~answers[i].cancel
    /\ (pc = "canceled") <=> (\E i \in 1..Len(answers) : answers[i].cancel)
    /\ (\E i \in 1..Len(answers) : answers[i].cancel) =>
        /\ written = {}
        /\ modifiedFiles = <<>>
        /\ writeCalls = <<>>
        /\ gitCalls = <<>>
        /\ invoked = <<>>
        /\ taskStatus = "running"

\* the version was chosen, commit and tag confirmed, push cancelled
C18_Witness ==
    /\ pc = "canceled"
    /\ Len(prompts) = 4
    /\ prompts[4].name = "push"
    /\ taskQueue = <<"upgradeVersion", "commit", "tag">>
    /\ taskStatus = "running"

\* ----------------------------------------------------------------- C19
\* C19: every commit call is made after all per-file updates have ended in
\* their push, none in its catch, and is handed every discovered project
\* file exactly once (so never a partial or an empty list).
C19_CommitGetsAllFiles ==
    \A i \in 1..Len(gitCalls) :
        gitCalls[i].fn = "commit" =>
            /\ \A p \in Range(projectFiles) : fileState[p] = "pushed"
            /\ ~SomeWriteFailed
            /\ Range(gitCalls[i].modifiedFiles) = Range(projectFiles)
            /\ Len(gitCalls[i].modifiedFiles) = Len(projectFiles)
            /\ Len(gitCalls[i].modifiedFiles) >= 1

\* the commit was called with both files, the second one pushed first
C19_Witness ==
    /\ Len(gitCalls) >= 1
    /\ gitCalls[1].fn = "commit"
    /\ gitCalls[1].modifiedFiles = <<2, 1>>
    /\ projectFiles = <<1, 2>>
====
